---- MODULE Spec2Model ----
\* The throttled poll cycle of the ESXi Stats integration (esxiStats.update_data)
\* and the store hass.data[DOMAIN_DATA] that async_setup creates.
EXTENDS Integers, Sequences, FiniteSets, TLC

\* ---------------------------------------------------------------- bounds
\* The clock advances in steps of TickStep seconds, MaxTicks times at most.
MaxTicks == 3

\* ---------------------------------------------------------------- constants
\* MIN_TIME_BETWEEN_UPDATES = timedelta(seconds=60)
MIN_TIME_BETWEEN_UPDATES == 60

\* Half the throttle interval: a call can come inside the interval, exactly at
\* its end, or after it.
TickStep == MIN_TIME_BETWEEN_UPDATES \div 2

\* The three buckets of the store, in the order update_data processes them.
Order == <<"hosts", "datastores", "vms">>
Categories == {Order[i] : i \in 1..Len(Order)}
Pos(c) == CHOOSE i \in 1..Len(Order) : Order[i] = c

\* ---------------------------------------------------------------- names
\* A display name is a sequence of characters.
Upper == {"A", "B"}
Alphabet == {"A", "a", "B", "b", " ", "_", "\t"}
Whitespace == {" ", "\t"}

\* str.lower() on one character
LowerChar(ch) ==
    CASE ch = "A" -> "a"
      [] ch = "B" -> "b"
      [] OTHER -> ch

\* str.replace(" ", "_") on one character
ReplaceChar(ch) == IF ch = " " THEN "_" ELSE ch

\* A version that lowercases but leaves spaces in place.
normalizeNoReplace(s) == [i \in 1..Len(s) |-> LowerChar(s[i])]

\* name.replace(" ", "_").lower()
normalize(s) == [i \in 1..Len(s) |-> LowerChar(ReplaceChar(s[i]))]

\* The display names the inventory can hold, in the endpoint's own order.
Names == << <<"A", " ">>, <<"B", "\t">> >>

\* The lists a container view can return: any of the names, in that order.
Lists == { <<>>, <<Names[1]>>, <<Names[2]>>, Names }

\* ---------------------------------------------------------------- state
VARIABLES
    now,                   \* wall clock (utcnow), seconds
    throttle,              \* Throttle's last-call time: <<>> (never) or <<t>>
    data,                  \* hass.data[DOMAIN_DATA]: category -> (key -> record)
    monitored_conditions,  \* config[DOMAIN][CONF_MONITORED_CONDITIONS]
    inventory,             \* the endpoint's inventory: category -> list of names
    views,                 \* container views created and not yet destroyed
    result                 \* outcome of the last call of update_data

vars == <<now, throttle, data, monitored_conditions, inventory, views, result>>

EmptyBucket == [k \in {} |-> 0]

\* get_host_info / get_datastore_info / get_vm_info: the record of an object,
\* read at time t.
GetInfo(obj, t) == [name |-> obj, at |-> t]

\* bucket[key] = rec
Put(bucket, key, rec) ==
    [k \in DOMAIN bucket \cup {key} |-> IF k = key THEN rec ELSE bucket[k]]

\* ---------------------------------------------------------------- failures
\* The place at which a call inside the try block raises.
NoFailure == [kind |-> "none", cat |-> "", idx |-> 0]

FailurePoints(inv, mon) ==
    {[kind |-> "connect", cat |-> "", idx |-> 0]}
    \cup {[kind |-> k, cat |-> c, idx |-> 0] :
            k \in {"create", "view", "destroy"}, c \in Categories}
    \cup {[kind |-> "extract", cat |-> c, idx |-> i] :
            <<c, i>> \in {p \in mon \X (1..Len(Names)) : p[2] <= Len(inv[p[1]])}}

\* Position of each statement of the try block in program order.
ConnectStage == 0
CreateStage(c) == Pos(c)
ViewStage(c) == 3 + Pos(c)
DestroyStage(c) == 6 + Pos(c)

\* A version in which the datastores loop runs before the hosts loop.
ExtractStageDatastoresFirst(c) ==
    CASE c = "datastores" -> 10
      [] c = "hosts" -> 11
      [] OTHER -> 12

ExtractStage(c) == 9 + Pos(c)

StageOf(f) ==
    CASE f.kind = "connect" -> ConnectStage
      [] f.kind = "create" -> CreateStage(f.cat)
      [] f.kind = "view" -> ViewStage(f.cat)
      [] f.kind = "destroy" -> DestroyStage(f.cat)
      [] f.kind = "extract" -> ExtractStage(f.cat)
      [] OTHER -> 13

\* A version in which a raising statement does not end the try block.
PassedNeverAborts(f, stage) == TRUE

\* The statement at `stage` ran to completion when the failure is f.
Passed(f, stage) == f = NoFailure \/ StageOf(f) > stage

\* A version that processes every category whatever the configuration.
MonitoredAlways(c, mon) == TRUE

\* if "<c>" in self.monitored_conditions
Monitored(c, mon) == c \in mon

\* Number of objects of category c whose record is stored before the cycle ends.
Written(f, c, list, mon) ==
    IF ~Monitored(c, mon) THEN 0
    ELSE IF Passed(f, ExtractStage(c)) THEN Len(list)
    ELSE IF f.kind = "extract" /\ f.cat = c THEN f.idx - 1
    ELSE 0

\* The for loop over one category, cut after n objects.
RECURSIVE ExtractLoop(_, _, _, _)
ExtractLoop(bucket, list, n, t) ==
    IF n = 0 THEN bucket
    ELSE Put(ExtractLoop(bucket, list, n - 1, t),
             normalize(list[n]), GetInfo(list[n], t))

\* A handler that catches connection errors only.
CaughtConnectOnly(f) == f.kind = "connect"

\* except Exception as error
Caught(f) == TRUE

\* A method without the Throttle decorator.
ThrottleAllowsAlways(t, last) == TRUE

\* @Throttle(MIN_TIME_BETWEEN_UPDATES): the body runs on the first call, and
\* afterwards only when more than the interval has passed since the last run.
ThrottleAllows(t, last) ==
    IF last = <<>> THEN TRUE ELSE t - last[1] > MIN_TIME_BETWEEN_UPDATES

\* ---------------------------------------------------------------- actions
Init ==
    /\ now = 0
    /\ throttle = <<>>
    /\ data = [c \in Categories |-> EmptyBucket]
    /\ monitored_conditions \in SUBSET Categories
    /\ inventory \in [Categories -> Lists]
    /\ views = 0
    /\ result = [ran |-> FALSE, error |-> <<>>, raised |-> FALSE]

\* Time passes.
Tick ==
    /\ now + TickStep <= MaxTicks * TickStep
    /\ now' = now + TickStep
    /\ UNCHANGED <<throttle, data, monitored_conditions, inventory, views, result>>

\* An object is added to, removed from or renamed on the endpoint.
InventoryChange ==
    /\ \E c \in Categories, l \in Lists :
          /\ l # inventory[c]
          /\ inventory' = [inventory EXCEPT ![c] = l]
    /\ UNCHANGED <<now, throttle, data, monitored_conditions, views, result>>

\* A call of update_data that the throttle suppresses.
update_data_throttled ==
    /\ ~ThrottleAllows(now, throttle)
    /\ result' = [ran |-> FALSE, error |-> <<>>, raised |-> FALSE]
    /\ UNCHANGED <<now, throttle, data, monitored_conditions, inventory, views>>

\* A call of update_data that runs the body; f is where the body raises, if at all.
update_data_body(f) ==
    /\ ThrottleAllows(now, throttle)
    /\ throttle' = <<now>>
    /\ data' = [c \in Categories |->
                  ExtractLoop(data[c], inventory[c],
                              Written(f, c, inventory[c], monitored_conditions), now)]
    /\ views' = views
                + Cardinality({c \in Categories : Passed(f, CreateStage(c))})
                - Cardinality({c \in Categories : Passed(f, DestroyStage(c))})
    /\ result' = [ran |-> TRUE,
                  error |-> IF f = NoFailure THEN <<>>
                            ELSE <<[kind |-> f.kind, cat |-> f.cat]>>,
                  raised |-> f # NoFailure /\ ~Caught(f)]
    /\ UNCHANGED <<now, monitored_conditions, inventory>>

update_data ==
    \/ update_data_throttled
    \/ \E f \in {NoFailure} \cup FailurePoints(inventory, monitored_conditions) :
          update_data_body(f)

Next ==
    \/ Tick
    \/ InventoryChange
    \/ update_data

Spec == Init /\ [][Next]_vars

\* ---------------------------------------------------------------- properties
\* The step ran the poll body (Throttle recorded a new call time).
Ran == throttle' # throttle

\* The mapping built from scratch from one enumeration read at time t.
Complete(list, t) == ExtractLoop(EmptyBucket, list, Len(list), t)

\* Every object of the list has, under its key, the record read at time t.
Fresh(bucket, list, t) ==
    \A i \in 1..Len(list) :
        /\ normalize(list[i]) \in DOMAIN bucket
        /\ bucket[normalize(list[i])] = GetInfo(list[i], t)

Failed(r, kinds, c) ==
    /\ r.error # <<>>
    /\ r.error[1].kind \in kinds
    /\ r.error[1].cat = c

\* C1: after a cycle that completes without an exception, every monitored bucket
\* is exactly the mapping built from that cycle's enumeration, so a key of an
\* object that left the inventory is gone.
C1_BucketRebuilt ==
    [][(Ran /\ result'.error = <<>>) =>
          \A c \in monitored_conditions :
              data'[c] = Complete(inventory[c], now)]_vars

\* C2: a step taken within MIN_TIME_BETWEEN_UPDATES of the last execution of the
\* poll body (calls of update_data included) does not execute the body: the
\* buckets, the views and the recorded call time stay as they were.
C2_Throttle ==
    [][(throttle # <<>> /\ now - throttle[1] <= MIN_TIME_BETWEEN_UPDATES) =>
          /\ data' = data
          /\ views' = views
          /\ throttle' = throttle]_vars

\* A call exactly at the end of the interval was suppressed and left the
\* records of the earlier cycle in place.
C2_Witness ==
    /\ throttle # <<>>
    /\ ~result.ran
    /\ now - throttle[1] = MIN_TIME_BETWEEN_UPDATES
    /\ data["hosts"] # EmptyBucket

\* C3: no step changes the bucket of a category that is not monitored.
C3_UnmonitoredUntouched ==
    [][\A c \in Categories \ monitored_conditions :
          data'[c] = data[c] /\ data'[c] = EmptyBucket]_vars

\* Only hosts are monitored, a cycle stored hosts, and the inventory holds VMs
\* and datastores.
C3_Witness ==
    /\ monitored_conditions = {"hosts"}
    /\ result.ran /\ result.error = <<>>
    /\ data["hosts"] # EmptyBucket
    /\ inventory["datastores"] # <<>>
    /\ inventory["vms"] # <<>>
    /\ data["datastores"] = EmptyBucket
    /\ data["vms"] = EmptyBucket

\* C4: no failure inside a cycle leaves update_data as an exception, and once
\* the throttle interval has passed after a failed cycle a call runs the body.
C4_NoEscape ==
    /\ ~result.raised
    /\ (/\ result.ran /\ result.error # <<>>
        /\ now - throttle[1] > MIN_TIME_BETWEEN_UPDATES)
       => (ENABLED update_data_body(NoFailure) /\ ~ENABLED update_data_throttled)

\* An earlier cycle failed after creating a view (the view is still live) and,
\* more than the interval later, a cycle ran and completed.
C4_Witness ==
    /\ result.ran /\ result.error = <<>>
    /\ views > 0
    /\ throttle[1] > MIN_TIME_BETWEEN_UPDATES

\* C5 as stated: a failure while enumerating datastores (creating the view or
\* reading its list) leaves the hosts bucket with the fresh host data.
C5_Original ==
    [][(/\ Ran
        /\ {"hosts", "datastores"} \subseteq monitored_conditions
        /\ Failed(result', {"create", "view"}, "datastores")) =>
          Fresh(data'["hosts"], inventory["hosts"], now)]_vars

\* C5 amended: a failure while reading the fields of a datastore in the
\* datastores loop leaves the hosts bucket with the fresh host data.
C5_Amended ==
    [][(/\ Ran
        /\ {"hosts", "datastores"} \subseteq monitored_conditions
        /\ Failed(result', {"extract"}, "datastores")) =>
          Fresh(data'["hosts"], inventory["hosts"], now)]_vars

\* Hosts and datastores are monitored, reading a datastore failed, and both
\* hosts of the inventory have the record of this cycle.
C5_Witness ==
    /\ {"hosts", "datastores"} \subseteq monitored_conditions
    /\ Failed(result, {"extract"}, "datastores")
    /\ inventory["hosts"] = Names
    /\ Fresh(data["hosts"], inventory["hosts"], throttle[1])

\* C6: a cycle whose connection step fails leaves all three buckets as they were.
C6_ConnectFailure ==
    [][(Ran /\ Failed(result', {"connect"}, "")) => data' = data]_vars

\* The connection failed and the records of an earlier cycle are still there.
C6_Witness ==
    /\ Failed(result, {"connect"}, "")
    /\ \E k \in DOMAIN data["vms"] : data["vms"][k].at < throttle[1]

Strings == {<<>>} \cup {<<a>> : a \in Alphabet} \cup (Alphabet \X Alphabet)

IsLower(s) == \A i \in 1..Len(s) : s[i] \notin Upper

Has(s, chars) == \E i \in 1..Len(s) : s[i] \in chars

\* On every string of up to two characters normalize is idempotent and gives a
\* lower-case result without a space.
NormalizeLaws ==
    \A s \in Strings :
        /\ normalize(normalize(s)) = normalize(s)
        /\ IsLower(normalize(s))
        /\ ~Has(normalize(s), {" "})

KeysAreNormalized ==
    \A c \in Categories : \A k \in DOMAIN data[c] :
        k = normalize(data[c][k].name)

C8_AtomicReplace ==
    [][\A c \in Categories :
          \/ data'[c] = data[c]
          \/ data'[c] = Complete(inventory[c], now)]_vars

\* C9: a failure in the extraction loop of category C leaves the bucket of C as
\* it was before the cycle, and the monitored categories before C hold the
\* fresh data of the cycle.
C9_FailedCategoryStale ==
    [][\A c \in monitored_conditions :
          (Ran /\ Failed(result', {"extract"}, c)) =>
              /\ data'[c] = data[c]
              /\ \A b \in monitored_conditions :
                    Pos(b) < Pos(c) => Fresh(data'[b], inventory[b], now)]_vars

\* C10: no cycle ends with a created view that was not destroyed.
C10_ViewsReleased == views = 0

====
